---- MODULE Spec2Model ----
(***************************************************************************)
(* The inventory cache of the MI equipment rental server (src/main.py):    *)
(* the process-wide cache and watermark, the wiki backend it mirrors, and  *)
(* the request handlers that refresh and read it.  Request handlers run in *)
(* worker threads, so every handler is a sequence of steps, one per access *)
(* to shared state (cache, last_checked_ts, the wiki, the clock).          *)
(***************************************************************************)
EXTENDS Integers, Sequences, FiniteSets, TLC

\* ------------------------------------------------------------- bounds
\* The local clock runs from 1 to MaxClock.
MaxClock == 2
\* Number of page saves/deletions the wiki's editors perform.
MaxEdits == 1
\* Number of requests the server accepts.
MaxRequests == 3

\* Two worker threads serve requests.
Procs == {1, 2}

\* ------------------------------------------------------------ strings
\* A Python string is a sequence of one-character strings.
Digits == {"0", "1", "2", "3", "4", "5", "6", "7", "8", "9"}

DigitVal(c) ==
  CASE c = "0" -> 0 [] c = "1" -> 1 [] c = "2" -> 2 [] c = "3" -> 3
    [] c = "4" -> 4 [] c = "5" -> 5 [] c = "6" -> 6 [] c = "7" -> 7
    [] c = "8" -> 8 [] c = "9" -> 9

DigitChar(n) ==
  CASE n = 0 -> "0" [] n = 1 -> "1" [] n = 2 -> "2" [] n = 3 -> "3"
    [] n = 4 -> "4" [] n = 5 -> "5" [] n = 6 -> "6" [] n = 7 -> "7"
    [] n = 8 -> "8" [] n = 9 -> "9"

\* Python's None; `not since_ts` is true of None (and of 0, which the clock
\* never shows).
None == 0

\* int(s) raises ValueError unless s is decimal digits, optionally with one
\* leading sign and single underscores between digits.
IsIntLiteral(s) ==
  LET body == IF Len(s) > 0 /\ s[1] \in {"+", "-"} THEN Tail(s) ELSE s
  IN  /\ Len(body) > 0
      /\ \A i \in 1..Len(body) : body[i] \in Digits \cup {"_"}
      /\ body[1] # "_"
      /\ body[Len(body)] # "_"
      /\ \A i \in 1..(Len(body) - 1) : ~(body[i] = "_" /\ body[i + 1] = "_")

RECURSIVE DigitsValue(_, _)
DigitsValue(s, acc) ==
  IF s = <<>> THEN acc
  ELSE IF Head(s) = "_" THEN DigitsValue(Tail(s), acc)
  ELSE DigitsValue(Tail(s), 10 * acc + DigitVal(Head(s)))

\* int(s) for an s that int() accepts.
ParseInt(s) ==
  IF s[1] = "-" THEN 0 - DigitsValue(Tail(s), 0)
  ELSE IF s[1] = "+" THEN DigitsValue(Tail(s), 0)
  ELSE DigitsValue(s, 0)

RECURSIVE DecimalDigits(_)
DecimalDigits(n) ==
  IF n < 10 THEN <<DigitChar(n)>>
  ELSE Append(DecimalDigits(n \div 10), DigitChar(n % 10))

RECURSIVE ZeroPad(_, _)
ZeroPad(s, width) == IF Len(s) >= width THEN s ELSE ZeroPad(<<"0">> \o s, width)

\* f"{uid:03d}": the sign counts towards the width of three.
Format03d(n) ==
  IF n < 0 THEN <<"-">> \o ZeroPad(DecimalDigits(0 - n), 2)
  ELSE ZeroPad(DecimalDigits(n), 3)

\* -------------------------------------------------------------- pages
\* A page id "a:b:leaf" is its namespace segments and its last segment.
wiki_path == <<"lab", "ausstattung">>

PageId(ns, leaf) == [ns |-> ns, leaf |-> leaf]

\* Mutant of StartsWithWikiPath: pages of every namespace pass.
StartsWithAnyPath(page) == TRUE

\* name.startswith("lab:ausstattung:")
StartsWithWikiPath(page) ==
  /\ Len(page.ns) >= Len(wiki_path)
  /\ SubSeq(page.ns, 1, Len(wiki_path)) = wiki_path

\* page['id'].split(":")[-1]
LastSegment(page) == page.leaf

\* settings.wiki_path + f"{uid:03d}"
ItemPage(uid) == PageId(wiki_path, Format03d(uid))

\* The pages the wiki may hold, in the order its listings return them.
P007 == PageId(wiki_path, <<"0", "0", "7">>)
P042 == PageId(wiki_path, <<"0", "4", "2">>)
PReadme == PageId(wiki_path, <<"r", "e", "a", "d", "m", "e">>)
\* A page of another namespace whose last segment is a number.
POther == PageId(<<"playground">>, <<"0", "0", "5">>)
PageOrder == <<P007, PReadme, POther, P042>>
AllPages == {PageOrder[i] : i \in 1..Len(PageOrder)}
\* The pages the wiki's editors save and delete, and the uids clients ask for.
EditablePages == {P007, P042}
ItemIds == {42}

\* ------------------------------------------------------------- records
\* A Python dict is a function; {} is the function with no keys.
EmptyDict == [k \in {} |-> 0]
Put(d, k, v) == (k :> v) @@ d

\* Field values: a string, a list of strings, an int, or None (each type
\* keeps its value under a name of its own).
StrVal(s) == [t |-> "str", v |-> s]
ListVal(l) == [t |-> "list", items |-> l]
IntVal(n) == [t |-> "int", n |-> n]
NoValue == [t |-> "none"]

\* The structured record on page `page` at revision `rev`.
Dataentry(page, rev) ==
  ("ID" :> StrVal(page.leaf)) @@ ("Name" :> StrVal(<<"r">> \o DecimalDigits(rev)))

DW_TO_I ==
  ("ID" :> "uid") @@ ("Name" :> "name") @@ ("Typ_devicetypes" :> "typ")
  @@ ("Standort" :> "standort") @@ ("OS" :> "os") @@ ("Zubehor" :> "zubehoer")
  @@ ("Seriennummern" :> "seriennummern") @@ ("Status_devicestat" :> "status")
  @@ ("Ausleiher" :> "ausleiher") @@ ("Von_dt" :> "von") @@ ("Bis_dt" :> "bis")
  @@ ("Anmerkungen" :> "anmerkungen")

ItemFields ==
  {"uid", "typ", "name", "standort", "os", "zubehoer", "seriennummern",
   "status", "ausleiher", "von", "bis", "anmerkungen", "url"}

\* Mutant of item_fields: an empty string is kept as a value.
item_fields_keep_empty(dataentry) ==
  LET known == {k \in DOMAIN dataentry : k \in DOMAIN DW_TO_I}
      raw(f) == dataentry[CHOOSE k \in known : DW_TO_I[k] = f]
  IN  [f \in {DW_TO_I[k] : k \in known} |->
         IF f = "typ" /\ raw(f).t = "str" THEN ListVal(<<raw(f).v>>)
         ELSE raw(f)]

\* The keyword arguments _dw_to_item collects for Item(...).
item_fields(dataentry) ==
  LET known == {k \in DOMAIN dataentry : k \in DOMAIN DW_TO_I}
      raw(f) == dataentry[CHOOSE k \in known : DW_TO_I[k] = f]
      mapped(f) == IF raw(f) # StrVal(<<>>) THEN raw(f) ELSE NoValue
  IN  [f \in {DW_TO_I[k] : k \in known} |->
         IF f = "typ" /\ mapped(f).t = "str" THEN ListVal(<<mapped(f).v>>)
         ELSE mapped(f)]

\* A date yyyy-m-d as pydantic reads it from a string: four digits, one or
\* two digits, one or two digits, and a day that the month has.
DateVal(y, m, d) == [t |-> "date", ymd |-> <<y, m, d>>]

AllDigits(s) == Len(s) > 0 /\ \A i \in 1..Len(s) : s[i] \in Digits

DaysInMonth(y, m) ==
  IF m \in {4, 6, 9, 11} THEN 30
  ELSE IF m # 2 THEN 31
  ELSE IF y % 4 = 0 /\ (y % 100 # 0 \/ y % 400 = 0) THEN 29
  ELSE 28

\* The position of the second "-" of a date string that starts "yyyy-".
SecondDash(s) == CHOOSE j \in 7..8 : j <= Len(s) /\ s[j] = "-"

IsIsoDate(s) ==
  /\ Len(s) >= 8
  /\ AllDigits(SubSeq(s, 1, 4))
  /\ s[5] = "-"
  /\ \E j \in 7..8 :
       /\ j < Len(s) /\ Len(s) - j <= 2
       /\ s[j] = "-"
       /\ AllDigits(SubSeq(s, 6, j - 1))
       /\ AllDigits(SubSeq(s, j + 1, Len(s)))
       /\ DigitsValue(SubSeq(s, 1, 4), 0) >= 1
       /\ DigitsValue(SubSeq(s, 6, j - 1), 0) \in 1..12
       /\ DigitsValue(SubSeq(s, j + 1, Len(s)), 0) \in
            1..DaysInMonth(DigitsValue(SubSeq(s, 1, 4), 0), DigitsValue(SubSeq(s, 6, j - 1), 0))

ParseDate(s) ==
  DateVal(DigitsValue(SubSeq(s, 1, 4), 0),
          DigitsValue(SubSeq(s, 6, SecondDash(s) - 1), 0),
          DigitsValue(SubSeq(s, SecondDash(s) + 1, Len(s)), 0))

\* The declared type of an Item field.
FieldType(f) ==
  IF f = "uid" THEN "int"
  ELSE IF f = "typ" THEN "list"
  ELSE IF f \in {"von", "bis"} THEN "date"
  ELSE "str"

\* pydantic accepts None for every field, a string that int() accepts for
\* uid, a list for typ, a date string for von and bis, a string elsewhere.
Coercible(f, v) ==
  \/ v.t = "none"
  \/ FieldType(f) = "int" /\ v.t = "str" /\ IsIntLiteral(v.v)
  \/ FieldType(f) = "list" /\ v.t = "list"
  \/ FieldType(f) = "date" /\ v.t = "str" /\ IsIsoDate(v.v)
  \/ FieldType(f) = "str" /\ v.t = "str"

Coerce(f, v) ==
  IF v.t = "none" THEN NoValue
  ELSE IF FieldType(f) = "int" THEN IntVal(ParseInt(v.v))
  ELSE IF FieldType(f) = "date" THEN ParseDate(v.v)
  ELSE v

\* Item(**item_fields) raises when a value cannot be coerced to its field.
ValidationError(fields) == \E f \in DOMAIN fields : ~Coercible(f, fields[f])

\* Item(**item_fields): unset fields are None, the others are coerced.
dw_to_item(dataentry) ==
  LET fields == item_fields(dataentry)
  IN  [f \in ItemFields |->
         IF f \notin DOMAIN fields THEN NoValue ELSE Coerce(f, fields[f])]

\* I_TO_DW = {value: key for key, value in DW_TO_I.items()}
I_TO_DW ==
  [f \in {DW_TO_I[k] : k \in DOMAIN DW_TO_I} |->
     CHOOSE k \in DOMAIN DW_TO_I : DW_TO_I[k] = f]

\* item.__fields__[k]: the pydantic descriptor of field k, not k's value.
ModelField(k) == [t |-> "field", of |-> k]

\* _item_to_dw: every field of Item that I_TO_DW knows gets an entry, and the
\* entry holds the field's descriptor.
item_to_dw(item) ==
  [name \in {I_TO_DW[k] : k \in DOMAIN item \cap DOMAIN I_TO_DW} |->
     ModelField(DW_TO_I[name])]

\* -------------------------------------------------------------- state
VARIABLES
  cache,               \* the global cache: uid -> raw record
  last_checked_ts,     \* the global watermark, None until the first refresh
  wiki,                \* the wiki backend: page -> [exists, rev, mtime]
  clock,               \* datetime.now().timestamp(), in whole seconds
  edits,               \* page saves and deletions so far
  served,              \* requests accepted so far
  pc,                  \* where each worker thread stands
  req,                 \* the request a thread serves
  since_ts,            \* update_cache's argument
  changed_item_pages,  \* update_cache's pages still to visit
  uid,                 \* the uid being fetched
  dataentry,           \* the record get_dataentry returned
  now_ts,              \* update_cache's return value
  resp,                \* the handler's outcome
  cache_pre,           \* history: the cache when the handler was entered
  undisturbed,         \* history: no page was edited since the handler was entered
  io_failed,           \* history: some call to the wiki has raised
  overlap,             \* history: other requests in flight during this one (2: several)
  call,                \* a function applied on its own: its name and its argument
  ret                  \* what that function returned or raised

shared == <<cache, last_checked_ts>>
backend == <<wiki, clock, edits>>
locals == <<req, since_ts, changed_item_pages, uid, dataentry, now_ts, resp>>
history == <<cache_pre, undisturbed, io_failed, overlap>>
pure == <<call, ret>>
server == <<cache, last_checked_ts, wiki, clock, edits, served, pc, req, since_ts,
            changed_item_pages, uid, dataentry, now_ts, resp, cache_pre, undisturbed,
            io_failed, overlap>>
vars == <<cache, last_checked_ts, wiki, clock, edits, served, pc, req, since_ts,
          changed_item_pages, uid, dataentry, now_ts, resp, cache_pre, undisturbed,
          io_failed, overlap, call, ret>>

\* No function is applied on its own while the server serves requests.
NoCall == [fn |-> "none"]
NoRet == [kind |-> "none"]

NoReq == [op |-> "none", item_id |-> 0, purge_cache |-> FALSE]
NoResp == [kind |-> "none", body |-> <<>>]
\* An exception that escapes the handler, and the step that raised it.
ErrorResp(name, at) == [kind |-> "error", body |-> name, at |-> at]

\* The handler's answer for one record: the mapped Item, or pydantic's error.
ItemResp(record, at) ==
  IF ValidationError(item_fields(record)) THEN ErrorResp("ValidationError", at)
  ELSE [kind |-> "item", body |-> dw_to_item(record)]

\* ------------------------------------------------------- wiki backend
\* dw.pages.info(page) != {}
PageExists(page) == page \in AllPages /\ wiki[page].exists

\* dw.pages.list(settings.wiki_path)
pages_list == SelectSeq(PageOrder, LAMBDA pg : wiki[pg].exists /\ StartsWithWikiPath(pg))

\* dw.pages.changes(timestamp): every page saved or deleted at or after it.
pages_changes(timestamp) ==
  SelectSeq(PageOrder, LAMBDA pg : wiki[pg].rev > 0 /\ wiki[pg].mtime >= timestamp)

\* Dataentry.get(dw.pages.get(page)); a page deleted meanwhile has no record.
pages_get(page) ==
  IF PageExists(page) THEN Dataentry(page, wiki[page].rev) ELSE EmptyDict

\* Item 042 and the readme page exist since before the server started; the
\* page of the other namespace was deleted as the server started.
InitWiki ==
  [pg \in AllPages |->
     IF pg \in {P042, PReadme} THEN [exists |-> TRUE, rev |-> 1, mtime |-> 0]
     ELSE IF pg = POther THEN [exists |-> FALSE, rev |-> 1, mtime |-> 1]
     ELSE [exists |-> FALSE, rev |-> 0, mtime |-> 0]]

\* The server after the module is loaded (lines 28-33).
InitServer ==
  /\ cache = EmptyDict
  /\ last_checked_ts = None
  /\ wiki = InitWiki
  /\ clock = 1
  /\ edits = 0
  /\ served = 0
  /\ pc = [p \in Procs |-> "idle"]
  /\ req = [p \in Procs |-> NoReq]
  /\ since_ts = [p \in Procs |-> None]
  /\ changed_item_pages = [p \in Procs |-> <<>>]
  /\ uid = [p \in Procs |-> 0]
  /\ dataentry = [p \in Procs |-> EmptyDict]
  /\ now_ts = [p \in Procs |-> None]
  /\ resp = [p \in Procs |-> NoResp]
  /\ cache_pre = [p \in Procs |-> EmptyDict]
  /\ undisturbed = [p \in Procs |-> TRUE]
  /\ io_failed = FALSE
  /\ overlap = [p \in Procs |-> 0]

Init ==
  /\ InitServer
  /\ call = NoCall
  /\ ret = NoRet

\* ------------------------------------------------------- environment
Tick ==
  /\ clock < MaxClock
  /\ clock' = clock + 1
  /\ UNCHANGED <<pure, shared, wiki, edits, served, pc, locals, history>>

Disturb == undisturbed' = [p \in Procs |-> pc[p] = "idle"]

WikiSave(page) ==
  /\ edits < MaxEdits
  /\ wiki' = [wiki EXCEPT ![page] = [exists |-> TRUE, rev |-> @.rev + 1, mtime |-> clock]]
  /\ edits' = edits + 1
  /\ Disturb
  /\ UNCHANGED <<pure, shared, clock, served, pc, locals, cache_pre, io_failed, overlap>>

WikiDelete(page) ==
  /\ edits < MaxEdits
  /\ wiki[page].exists
  /\ wiki' = [wiki EXCEPT ![page] = [exists |-> FALSE, rev |-> @.rev + 1, mtime |-> clock]]
  /\ edits' = edits + 1
  /\ Disturb
  /\ UNCHANGED <<pure, shared, clock, served, pc, locals, cache_pre, io_failed, overlap>>

\* History: thread p enters a request; it overlaps every request in flight.
Overlaps(p) ==
  overlap' = [q \in Procs |->
     IF q = p THEN Cardinality({r \in Procs \ {p} : pc[r] # "idle"})
     ELSE IF pc[q] = "idle" THEN overlap[q]
     ELSE IF overlap[q] = 0 THEN 1 ELSE 2]

\* A request is taken by the first worker thread that is free.
Accepts(p) ==
  /\ pc[p] = "idle"
  /\ \A q \in Procs : q < p => pc[q] # "idle"
  /\ served < MaxRequests

\* ------------------------------------------------------- update_cache
\* Mutants of ClearedCache: every refresh empties the cache; none does.
ClearedCacheAlways(since, c) == EmptyDict
ClearedCacheNever(since, c) == c

\* `if not since_ts: cache = {}`: the cache update_cache starts from.
ClearedCache(since, c) == IF since = None THEN EmptyDict ELSE c

\* Entry of update_cache(since): the argument is bound, an unset watermark
\* empties the global cache, and the listing or the changes feed is next.
update_cache(p, op, since) ==
  /\ Accepts(p)
  /\ served' = served + 1
  /\ req' = [req EXCEPT ![p] = [op |-> op, item_id |-> 0, purge_cache |-> FALSE]]
  /\ since_ts' = [since_ts EXCEPT ![p] = since]
  /\ cache_pre' = [cache_pre EXCEPT ![p] = cache]
  /\ undisturbed' = [undisturbed EXCEPT ![p] = TRUE]
  /\ Overlaps(p)
  /\ cache' = ClearedCache(since, cache)
  /\ pc' = [pc EXCEPT ![p] = IF since = None THEN "uc_list" ELSE "uc_changes"]
  /\ UNCHANGED <<pure, last_checked_ts, backend, changed_item_pages, uid, dataentry, now_ts, resp, io_failed>>

\* GET /items, GET /update_cache: update_cache(last_checked_ts).
list_items(p) == update_cache(p, "list_items", last_checked_ts)
update_cache_now(p) == update_cache(p, "update_cache_now", last_checked_ts)
\* GET /purge_cache: update_cache().
purge_cache(p) == update_cache(p, "purge_cache", None)

\* The timestamp the changes feed is asked for: the global, not the argument.
ChangesSince(p) == last_checked_ts

\* Mutant of AfterSkip: `break` in place of `continue`.
AfterSkipBreak(pages) == <<>>

\* The pages left after one that is not an item: `continue`.
AfterSkip(pages) == Tail(pages)

\* `for page in changed_item_pages`: pages whose last segment int() rejects
\* are skipped; what is left starts with the next item page.
RECURSIVE SkipNonItems(_)
SkipNonItems(pages) ==
  IF pages = <<>> THEN <<>>
  ELSE IF IsIntLiteral(LastSegment(Head(pages))) THEN pages
  ELSE SkipNonItems(AfterSkip(pages))

\* The loop takes its next item page, or ends and update_cache reads the clock
\* (the locals a step leaves dead are reset).
LoopNext(p, pages) ==
  LET rest == SkipNonItems(pages)
  IN  IF rest = <<>>
      THEN /\ changed_item_pages' = [changed_item_pages EXCEPT ![p] = <<>>]
           /\ pc' = [pc EXCEPT ![p] = "uc_now"]
           /\ uid' = [uid EXCEPT ![p] = 0]
      ELSE /\ changed_item_pages' = [changed_item_pages EXCEPT ![p] = Tail(rest)]
           /\ uid' = [uid EXCEPT ![p] = ParseInt(LastSegment(Head(rest)))]
           /\ pc' = [pc EXCEPT ![p] = "gd_info"]

\* changed_item_pages = dw.pages.list(settings.wiki_path)
uc_list(p) ==
  /\ pc[p] = "uc_list"
  /\ LoopNext(p, pages_list)
  /\ UNCHANGED <<pure, shared, backend, served, req, since_ts, dataentry, now_ts, resp, history>>

\* changed_pages = dw.pages.changes(last_checked_ts), kept when under wiki_path.
uc_changes(p) ==
  /\ pc[p] = "uc_changes"
  /\ LoopNext(p, SelectSeq(pages_changes(ChangesSince(p)), StartsWithWikiPath))
  /\ UNCHANGED <<pure, shared, backend, served, req, since_ts, dataentry, now_ts, resp, history>>

\* Where get_dataentry returns to.
StorePc(p) == IF req[p].op = "read_item" THEN "ri_put" ELSE "uc_put"

\* get_dataentry: `if dw.pages.info(page) == {}: return {}`.
gd_info(p) ==
  /\ pc[p] = "gd_info"
  /\ IF PageExists(ItemPage(uid[p]))
     THEN /\ pc' = [pc EXCEPT ![p] = "gd_get"]
          /\ UNCHANGED dataentry
     ELSE /\ dataentry' = [dataentry EXCEPT ![p] = EmptyDict]
          /\ pc' = [pc EXCEPT ![p] = StorePc(p)]
  /\ UNCHANGED <<pure, shared, backend, served, req, since_ts, changed_item_pages, uid, now_ts, resp, history>>

\* get_dataentry: `return Dataentry.get(dw.pages.get(page))`.
gd_get(p) ==
  /\ pc[p] = "gd_get"
  /\ dataentry' = [dataentry EXCEPT ![p] = pages_get(ItemPage(uid[p]))]
  /\ pc' = [pc EXCEPT ![p] = StorePc(p)]
  /\ UNCHANGED <<pure, shared, backend, served, req, since_ts, changed_item_pages, uid, now_ts, resp, history>>

\* Mutant of StoreEntry: the stored entry is the only one left.
StoreEntryAlone(c, u, data) == (u :> data)

\* What `cache[uid] = get_dataentry(uid)` leaves in the cache.
StoreEntry(c, u, data) == Put(c, u, data)

uc_put(p) ==
  /\ pc[p] = "uc_put"
  /\ cache' = StoreEntry(cache, uid[p], dataentry[p])
  /\ LoopNext(p, changed_item_pages[p])
  /\ dataentry' = [dataentry EXCEPT ![p] = EmptyDict]
  /\ UNCHANGED <<pure, last_checked_ts, backend, served, req, since_ts, now_ts, resp, history>>

\* return int(datetime.now().timestamp())
uc_now(p) ==
  /\ pc[p] = "uc_now"
  /\ now_ts' = [now_ts EXCEPT ![p] = clock]
  /\ pc' = [pc EXCEPT ![p] = "store_ts"]
  /\ UNCHANGED <<pure, shared, backend, served, req, since_ts, changed_item_pages, uid, dataentry, resp, history>>

\* The caller's `last_checked_ts = update_cache(...)`.
store_ts(p) ==
  /\ pc[p] = "store_ts"
  /\ last_checked_ts' = now_ts[p]
  /\ IF req[p].op = "list_items"
     THEN /\ pc' = [pc EXCEPT ![p] = "li_map"]
          /\ UNCHANGED resp
     ELSE /\ pc' = [pc EXCEPT ![p] = "done"]
          /\ resp' = [resp EXCEPT ![p] = [kind |-> "status", body |-> <<>>]]
  /\ UNCHANGED <<pure, cache, backend, served, req, since_ts, changed_item_pages, uid, dataentry, now_ts, history>>

\* list_items after the refresh: the mapped cache, or `assert False`.
li_map(p) ==
  /\ pc[p] = "li_map"
  /\ resp' = [resp EXCEPT ![p] =
       IF cache = EmptyDict THEN ErrorResp("AssertionError", "li_map")
       ELSE IF \E i \in DOMAIN cache : ValidationError(item_fields(cache[i]))
       THEN ErrorResp("ValidationError", "li_map")
       ELSE [kind |-> "items", body |-> [i \in DOMAIN cache |-> dw_to_item(cache[i])]]]
  /\ pc' = [pc EXCEPT ![p] = "done"]
  /\ UNCHANGED <<pure, shared, backend, served, req, since_ts, changed_item_pages, uid, dataentry, now_ts, history>>

\* ---------------------------------------------------------- read_item
\* GET /items/{item_id}: `if purge_cache or (item_id not in cache.keys())`.
read_item(p, item_id, purge) ==
  /\ Accepts(p)
  /\ served' = served + 1
  /\ req' = [req EXCEPT ![p] = [op |-> "read_item", item_id |-> item_id, purge_cache |-> purge]]
  /\ cache_pre' = [cache_pre EXCEPT ![p] = cache]
  /\ undisturbed' = [undisturbed EXCEPT ![p] = TRUE]
  /\ Overlaps(p)
  /\ IF purge \/ item_id \notin DOMAIN cache
     THEN /\ uid' = [uid EXCEPT ![p] = item_id]
          /\ pc' = [pc EXCEPT ![p] = "gd_info"]
     ELSE /\ pc' = [pc EXCEPT ![p] = "ri_read"]
          /\ UNCHANGED uid
  /\ UNCHANGED <<pure, shared, backend, since_ts, changed_item_pages, dataentry, now_ts, resp, io_failed>>

\* `dataentry = cache[item_id]`, then the mapped item; KeyError if the entry
\* went away since the membership test.
ri_read(p) ==
  /\ pc[p] = "ri_read"
  /\ IF req[p].item_id \in DOMAIN cache
     THEN /\ dataentry' = [dataentry EXCEPT ![p] = cache[req[p].item_id]]
          /\ resp' = [resp EXCEPT ![p] = ItemResp(cache[req[p].item_id], "ri_read")]
     ELSE /\ resp' = [resp EXCEPT ![p] = ErrorResp("KeyError", "ri_read")]
          /\ UNCHANGED dataentry
  /\ pc' = [pc EXCEPT ![p] = "done"]
  /\ UNCHANGED <<pure, shared, backend, served, req, since_ts, changed_item_pages, uid, now_ts, history>>

\* `cache[item_id] = dataentry`, then the mapped item.
ri_put(p) ==
  /\ pc[p] = "ri_put"
  /\ cache' = StoreEntry(cache, req[p].item_id, dataentry[p])
  /\ resp' = [resp EXCEPT ![p] = ItemResp(dataentry[p], "ri_put")]
  /\ pc' = [pc EXCEPT ![p] = "done"]
  /\ UNCHANGED <<pure, last_checked_ts, backend, served, req, since_ts, changed_item_pages, uid, dataentry, now_ts, history>>

\* ------------------------------------------------------------ outcomes
\* A call to the wiki raises (transport or API error): nothing catches it,
\* the handler ends with the exception.
IoPcs == {"uc_list", "uc_changes", "gd_info", "gd_get"}

Raise(p) ==
  /\ pc[p] \in IoPcs
  /\ resp' = [resp EXCEPT ![p] = ErrorResp("DokuWikiError", pc[p])]
  /\ pc' = [pc EXCEPT ![p] = "done"]
  /\ io_failed' = TRUE
  /\ UNCHANGED <<pure, shared, backend, served, req, since_ts, changed_item_pages, uid, dataentry, now_ts,
                 cache_pre, undisturbed, overlap>>

\* The response is sent; the thread is free for the next request.
Respond(p) ==
  /\ pc[p] = "done"
  /\ pc' = [pc EXCEPT ![p] = "idle"]
  /\ req' = [req EXCEPT ![p] = NoReq]
  /\ since_ts' = [since_ts EXCEPT ![p] = None]
  /\ changed_item_pages' = [changed_item_pages EXCEPT ![p] = <<>>]
  /\ uid' = [uid EXCEPT ![p] = 0]
  /\ dataentry' = [dataentry EXCEPT ![p] = EmptyDict]
  /\ now_ts' = [now_ts EXCEPT ![p] = None]
  /\ resp' = [resp EXCEPT ![p] = NoResp]
  /\ cache_pre' = [cache_pre EXCEPT ![p] = EmptyDict]
  /\ undisturbed' = [undisturbed EXCEPT ![p] = TRUE]
  /\ overlap' = [overlap EXCEPT ![p] = 0]
  /\ UNCHANGED <<pure, shared, backend, served, io_failed>>

\* ----------------------------------------------------- read_user_data
\* The directory entries a search may return, and the groups of one entry.
MaxMatches == 2
MaxGroups == 2

\* All sequences over S of length at most n.
SeqsUpTo(S, n) == UNION {[1..k -> S] : k \in 0..n}

\* settings.groups_with_edit_rights
MiStaffGroup ==
  <<"m", "i", "-", "s", "t", "a", "f", "f", ".", "m", "i", ".", "s", "p",
    "r", "a", "c", "h", "l", "i", "t", ".", "u", "n", "i", "-", "r", "e",
    "g", "e", "n", "s", "b", "u", "r", "g", ".", "d", "e">>
MiShkGroup ==
  <<"m", "i", "-", "s", "h", "k", ".", "m", "i", ".", "s", "p", "r", "a",
    "c", "h", "l", "i", "t", ".", "u", "n", "i", "-", "r", "e", "g", "e",
    "n", "s", "b", "u", "r", "g", ".", "d", "e">>
groups_with_edit_rights == {MiStaffGroup, MiShkGroup}

\* Distinguished names of directory groups: the staff group, a student group,
\* and a group named mi-staff in another organisational unit.
StaffDN ==
  <<"c", "n", "=", "m", "i", "-", "s", "t", "a", "f", "f", ",", "o", "u",
    "=", "m", "i", ",", "o", "u", "=", "s", "p", "r", "a", "c", "h", "l",
    "i", "t", ",", "o", "=", "u", "n", "i", "-", "r", "e", "g", "e", "n",
    "s", "b", "u", "r", "g", ",", "c", "=", "d", "e">>
StudentDN ==
  <<"c", "n", "=", "m", "i", "-", "s", "t", "u", "d", ",", "o", "u", "=",
    "m", "i", ",", "o", "u", "=", "s", "p", "r", "a", "c", "h", "l", "i",
    "t", ",", "o", "=", "u", "n", "i", "-", "r", "e", "g", "e", "n", "s",
    "b", "u", "r", "g", ",", "c", "=", "d", "e">>
OtherStaffDN ==
  <<"c", "n", "=", "m", "i", "-", "s", "t", "a", "f", "f", ",", "o", "u",
    "=", "p", "h", "i", "l", ",", "o", "=", "u", "n", "i", "-", "r", "e",
    "g", "e", "n", "s", "b", "u", "r", "g", ",", "c", "=", "d", "e">>
GroupDNs == {StaffDN, StudentDN, OtherStaffDN}

\* str.replace(old, new): every occurrence, left to right, without overlap.
RECURSIVE Replace(_, _, _)
Replace(s, old, new) ==
  IF Len(s) < Len(old) THEN s
  ELSE IF SubSeq(s, 1, Len(old)) = old
  THEN new \o Replace(SubSeq(s, Len(old) + 1, Len(s)), old, new)
  ELSE <<Head(s)>> \o Replace(Tail(s), old, new)

\* g.decode('utf-8').replace("cn=", "").replace(",ou=", ".")
\*  .replace(",o=", ".").replace(",c=", ".")   (the names are ASCII)
NormalizeGroup(g) ==
  Replace(Replace(Replace(Replace(g, <<"c", "n", "=">>, <<>>),
                          <<",", "o", "u", "=">>, <<".">>),
                  <<",", "o", "=">>, <<".">>),
          <<",", "c", "=">>, <<".">>)

\* Mutant of HasEditRights: membership in any group gives edit rights.
HasEditRightsAnyGroup(groups) == groups # <<>>

\* set(settings.groups_with_edit_rights).intersection(set(groups)) is not empty.
HasEditRights(groups) ==
  groups_with_edit_rights \cap {groups[i] : i \in 1..Len(groups)} # {}

\* One directory entry: its attributes, each a list of values.  An entry
\* that is in no group may lack the groupMembership attribute.
UserAttrs == [fullName |-> <<<<"A", "d", "a">>>>, mail |-> <<<<"a", "@", "u", "r">>>>]
LdapEntries ==
  {UserAttrs} \cup
  {[fullName |-> UserAttrs.fullName, mail |-> UserAttrs.mail, groupMembership |-> g] :
     g \in SeqsUpTo(GroupDNs, MaxGroups)}

\* What l.search_ext_s(...) does: it raises ldap.TIMEOUT or another
\* ldap.LDAPError, or returns the matching entries.
SearchOutcomes ==
  {[kind |-> "TIMEOUT"], [kind |-> "SERVER_DOWN"]} \cup
  {[kind |-> "results", entries |-> e] : e \in SeqsUpTo(LdapEntries, MaxMatches)}

UserIds == {<<"a", "d", "a">>}

\* `return None`
NoneRet == [kind |-> "None"]
\* An exception that escapes read_user_data.
RaisedRet(name) == [kind |-> "error", body |-> name]

\* The body of read_user_data after the search has returned `results`.
user_data(user_id, results) ==
  IF Len(results) # 1 THEN RaisedRet("AssertionError")
  ELSE LET result == results[1]
       IN  IF "groupMembership" \notin DOMAIN result THEN RaisedRet("KeyError")
           ELSE LET groups == [i \in 1..Len(result.groupMembership) |->
                                 NormalizeGroup(result.groupMembership[i])]
                    allowed == <<"read_item", "list_items">> \o
                               (IF HasEditRights(groups) THEN <<"update_item">> ELSE <<>>)
                IN  [kind |-> "user", user_id |-> user_id,
                     name |-> result.fullName[1], e_mail |-> result.mail[1],
                     groups |-> groups, allowed |-> allowed]

\* GET /users/{user_id}: only ldap.TIMEOUT is caught.
read_user_data ==
  /\ call.fn = "read_user_data"
  /\ ret = NoRet
  /\ ret' = IF call.search.kind = "TIMEOUT" THEN NoneRet
            ELSE IF call.search.kind # "results" THEN RaisedRet(call.search.kind)
            ELSE user_data(call.user_id, call.search.entries)
  /\ UNCHANGED <<server, call>>

\* -------------------------------------------------------- field mapper
\* Raw records the mapper is applied to: per key, the key is absent or has
\* one of a few values; "Kommentar" is a key that DW_TO_I does not know.
Absent == [t |-> "absent"]
Str042 == <<"0", "4", "2">>
StrAbc == <<"a", "b", "c">>
StrPC == <<"P", "C">>
StrLaptop ==
  <<"L", "a", "p", "t", "o", "p">>
StrMay1 ==
  <<"2", "0", "2", "1", "-", "0", "5", "-", "0", "1">>
StrJune2 ==
  <<"2", "0", "2", "1", "-", "6", "-", "2">>
StrFeb30 ==
  <<"2", "0", "2", "1", "-", "0", "2", "-", "3", "0">>

IdOptions == {Absent, StrVal(<<>>), StrVal(Str042), StrVal(StrAbc)}
NameOptions == {Absent, StrVal(<<>>), StrVal(StrAbc)}
TypOptions == {Absent, StrVal(<<>>), StrVal(StrPC), ListVal(<<StrPC, StrLaptop>>)}
DateOptions == {Absent, StrVal(<<>>), StrVal(StrMay1), StrVal(StrFeb30)}
UnknownOptions == {Absent, StrVal(StrAbc)}

\* The dict without the keys that are absent.
Present(d) == [k \in {j \in DOMAIN d : d[j].t # "absent"} |-> d[k]]

SampleRaw ==
  {Present(("ID" :> a) @@ ("Name" :> b) @@ ("Typ_devicetypes" :> c)
           @@ ("Von_dt" :> d) @@ ("Kommentar" :> e)) :
     a \in IdOptions, b \in NameOptions, c \in TypOptions, d \in DateOptions,
     e \in UnknownOptions}

\* Raw records in which every mapped field has a value.
PopulatedRaw ==
  {[k \in DOMAIN DW_TO_I |->
      IF k = "ID" THEN StrVal(Str042)
      ELSE IF k = "Typ_devicetypes" THEN typ
      ELSE IF k = "Von_dt" THEN StrVal(StrMay1)
      ELSE IF k = "Bis_dt" THEN StrVal(StrJune2)
      ELSE IF k = "Name" THEN name
      ELSE StrVal(StrAbc)] :
     typ \in TypOptions \ {Absent, StrVal(<<>>)},
     name \in NameOptions \ {Absent, StrVal(<<>>)}}

\* item = _dw_to_item(raw)
map_to_item ==
  /\ call.fn = "mapper"
  /\ ret = NoRet
  /\ ret' = ItemResp(call.raw, "dw_to_item")
  /\ UNCHANGED <<server, call>>

\* _item_to_dw(item)
map_to_dw ==
  /\ call.fn = "mapper"
  /\ ret.kind = "item"
  /\ ret' = [kind |-> "raw", item |-> ret.body, body |-> item_to_dw(ret.body)]
  /\ UNCHANGED <<server, call>>

\* ------------------------------------------------------ page addresses
\* Page ids a listing of lab:ausstattung: may hold: directly under the
\* namespace or one level below, with a number of up to MaxSuffixLen digits
\* or a word as last segment.
MaxSuffixLen == 4
SuffixChars == {"0", "2", "4"}
Suffixes == UNION {[1..k -> SuffixChars] : k \in 1..MaxSuffixLen}
ListedNamespaces == {wiki_path, wiki_path \o <<"alt">>}
ListedPages ==
  {PageId(ns, leaf) : ns \in ListedNamespaces, leaf \in Suffixes \cup {PReadme.leaf}}

\* One turn of update_cache's loop for a listed page: the uid of its last
\* segment, and the page get_dataentry asks the wiki for under that uid.
address_page ==
  /\ call.fn = "get_dataentry"
  /\ ret = NoRet
  /\ ret' = IF IsIntLiteral(LastSegment(call.page))
            THEN [kind |-> "page", uid |-> ParseInt(LastSegment(call.page)),
                  page |-> ItemPage(ParseInt(LastSegment(call.page)))]
            ELSE [kind |-> "skipped"]
  /\ UNCHANGED <<server, call>>

\* ------------------------------------------------------ specifications
Step(p) ==
  \/ list_items(p)
  \/ update_cache_now(p)
  \/ purge_cache(p)
  \/ \E item_id \in ItemIds, purge \in BOOLEAN : read_item(p, item_id, purge)
  \/ uc_list(p)
  \/ uc_changes(p)
  \/ gd_info(p)
  \/ gd_get(p)
  \/ uc_put(p)
  \/ uc_now(p)
  \/ store_ts(p)
  \/ li_map(p)
  \/ ri_read(p)
  \/ ri_put(p)
  \/ Raise(p)
  \/ Respond(p)

Environment ==
  \/ Tick
  \/ \E page \in EditablePages : WikiSave(page)
  \/ \E page \in EditablePages : WikiDelete(page)

\* Requests are served concurrently by the worker threads.
Next == Environment \/ \E p \in Procs : Step(p)

Spec == Init /\ [][Next]_vars

\* Requests are served one at a time.
Alone(p) == \A q \in Procs \ {p} : pc[q] = "idle"

StepSeq(p) ==
  \/ Alone(p) /\ list_items(p)
  \/ Alone(p) /\ update_cache_now(p)
  \/ Alone(p) /\ purge_cache(p)
  \/ \E item_id \in ItemIds, purge \in BOOLEAN : Alone(p) /\ read_item(p, item_id, purge)
  \/ Alone(p) /\ uc_list(p)
  \/ Alone(p) /\ uc_changes(p)
  \/ Alone(p) /\ gd_info(p)
  \/ Alone(p) /\ gd_get(p)
  \/ Alone(p) /\ uc_put(p)
  \/ Alone(p) /\ uc_now(p)
  \/ Alone(p) /\ store_ts(p)
  \/ Alone(p) /\ li_map(p)
  \/ Alone(p) /\ ri_read(p)
  \/ Alone(p) /\ ri_put(p)
  \/ Alone(p) /\ Raise(p)
  \/ Alone(p) /\ Respond(p)

NextSeq == Environment \/ \E p \in Procs : StepSeq(p)

SpecSeq == Init /\ [][NextSeq]_vars

\* The directory lookup, for every answer the directory may give.
InitUser ==
  /\ InitServer
  /\ call \in {[fn |-> "read_user_data", user_id |-> u, search |-> o] :
                 u \in UserIds, o \in SearchOutcomes}
  /\ ret = NoRet

NextUser == read_user_data

SpecUser == InitUser /\ [][NextUser]_vars

\* The field mapper, applied to every sample record and back.
InitMapper ==
  /\ InitServer
  /\ call \in {[fn |-> "mapper", raw |-> r] : r \in SampleRaw \cup PopulatedRaw}
  /\ ret = NoRet

NextMapper == map_to_item \/ map_to_dw

SpecMapper == InitMapper /\ [][NextMapper]_vars

\* The addressing of pages, for every listed page id.
InitPages ==
  /\ InitServer
  /\ call \in {[fn |-> "get_dataentry", page |-> pg] : pg \in ListedPages}
  /\ ret = NoRet

NextPages == address_page

SpecPages == InitPages /\ [][NextPages]_vars

\* -------------------------------------------------------------- claims
RefreshOps == {"list_items", "update_cache_now", "purge_cache"}

\* update_cache has returned to its caller (no wiki call raised).
Refreshed(p) ==
  /\ req[p].op \in RefreshOps
  /\ pc[p] \in {"store_ts", "li_map", "done"}
  /\ ~(resp[p].kind = "error" /\ resp[p].body = "DokuWikiError")

\* The uids of the item pages among `pages`.
ItemUids(pages) ==
  {ParseInt(LastSegment(pages[i])) :
     i \in {j \in 1..Len(pages) : IsIntLiteral(LastSegment(pages[j]))}}

\* The record of uid's page on the wiki as it is now.
Fetched(u) ==
  IF PageExists(ItemPage(u)) THEN Dataentry(ItemPage(u), wiki[ItemPage(u)].rev)
  ELSE EmptyDict

\* The pages a refresh with watermark `since` visits on the wiki as it is now.
Visited(since) ==
  IF since = None THEN pages_list
  ELSE SelectSeq(pages_changes(since), StartsWithWikiPath)

\* The cache a refresh with watermark `since` leaves when it runs alone,
\* from cache c, on the wiki as it is now.
RefreshResult(c, since) ==
  LET base == IF since = None THEN EmptyDict ELSE c
      uids == ItemUids(Visited(since))
  IN  [u \in DOMAIN base \cup uids |-> IF u \in uids THEN Fetched(u) ELSE base[u]]

\* What a reader finds under uid u in cache c: one record, or nothing.
Entry(c, u) == IF u \in DOMAIN c THEN {c[u]} ELSE {}

\* C1: two calls of update_cache entered with the same watermark, interleaved
\* in any way over an unchanging wiki and with no third request in flight
\* beside them, leave the cache that one of them leaves when it runs alone.
C1_InterleavedRefreshes ==
  \A p, q \in Procs :
    (/\ p # q
     /\ Refreshed(p) /\ Refreshed(q)
     /\ since_ts[p] = since_ts[q]
     /\ undisturbed[p] /\ undisturbed[q]
     /\ overlap[p] <= 1 /\ overlap[q] <= 1)
    => cache \in {RefreshResult(cache_pre[p], since_ts[p]),
                  RefreshResult(cache_pre[q], since_ts[q])}

\* Both calls are incremental, have just returned, and fetched a changed page.
C1_Witness ==
  \E p, q \in Procs :
    /\ p # q
    /\ pc[p] = "store_ts" /\ pc[q] = "store_ts"
    /\ since_ts[p] = since_ts[q] /\ since_ts[p] # None
    /\ undisturbed[p] /\ undisturbed[q]
    /\ overlap[p] = 1 /\ overlap[q] = 1
    /\ cache # cache_pre[p]
    /\ Cardinality(DOMAIN cache) >= 2

\* A full rebuild by p is under way: the cache was emptied, update_cache has
\* not returned.
Rebuilding(p) ==
  /\ req[p].op \in RefreshOps
  /\ since_ts[p] = None
  /\ pc[p] \in {"uc_list", "gd_info", "gd_get", "uc_put", "uc_now"}

\* C2: while a full rebuild is under way over an unchanging wiki, what the
\* mapping step of a concurrent list_items finds under every uid is the entry
\* from before the rebuild or the entry the rebuild ends with.
C2_ReaderSeesPreOrPost ==
  \A p, q \in Procs :
    (p # q /\ Rebuilding(p) /\ undisturbed[p] /\ pc[q] = "li_map")
    => \A u \in DOMAIN cache_pre[p] \cup DOMAIN RefreshResult(cache, None) :
         Entry(cache, u) \in {Entry(cache_pre[p], u),
                              Entry(RefreshResult(cache, None), u)}

\* An item page is cached with the record it holds now.
Current(page) ==
  LET u == ParseInt(LastSegment(page))
  IN  u \in DOMAIN cache /\ cache[u] = Dataentry(page, wiki[page].rev)

ItemPages ==
  {page \in AllPages : StartsWithWikiPath(page) /\ IsIntLiteral(LastSegment(page))}

\* C3: no change is missed: when no wiki call has ever raised and an
\* incremental refresh has run to its end with no page edited meanwhile,
\* every existing item page is cached with its current record.
C3_NoChangeMissed ==
  \A p \in Procs :
    (/\ Refreshed(p) /\ pc[p] = "store_ts"
     /\ since_ts[p] # None
     /\ undisturbed[p]
     /\ ~io_failed)
    => \A page \in ItemPages : wiki[page].exists => Current(page)

\* C4: an error raised by the wiki while one page is fetched never fails the
\* refresh: no refresh request ends with that error.
C4_PageErrorAbsorbed ==
  \A p \in Procs :
    (req[p].op \in RefreshOps /\ pc[p] = "done")
    => ~(resp[p].kind = "error" /\ resp[p].at \in {"gd_info", "gd_get"})

\* C5: a refresh never leaves an empty record under a uid: every empty
\* record in the cache was there when the refresh was entered.
C5_MissingPageSkipped ==
  \A p \in Procs :
    (req[p].op \in RefreshOps /\ Alone(p))
    => \A u \in DOMAIN cache :
         cache[u] = EmptyDict => Entry(cache_pre[p], u) = {EmptyDict}

\* C6: the stored watermark never decreases.
C6_WatermarkMonotonic == [][last_checked_ts' >= last_checked_ts]_vars

\* C7: a refresh with an unset watermark, run to its end with no page edited
\* meanwhile, leaves exactly the entries of the full listing, whatever the
\* cache held before, and returns a watermark.
C7_UnsetWatermarkRebuilds ==
  \A p \in Procs :
    (/\ Refreshed(p) /\ pc[p] = "store_ts"
     /\ since_ts[p] = None
     /\ undisturbed[p])
    => /\ DOMAIN cache = ItemUids(pages_list)
       /\ \A u \in DOMAIN cache : cache[u] = Fetched(u)
       /\ now_ts[p] \in 1..clock

\* A refresh entered by GET /items with no watermark dropped a prior entry.
C7_Witness ==
  \E p \in Procs :
    /\ req[p].op = "list_items" /\ pc[p] = "store_ts"
    /\ since_ts[p] = None
    /\ undisturbed[p]
    /\ \E u \in DOMAIN cache_pre[p] : u \notin DOMAIN cache

\* C8: after a refresh run to its end with no page edited meanwhile, the keys
\* it added are exactly the integers of the visited pages whose last segment
\* int() accepts; "042" gives 42 and "readme" gives nothing and stops nothing.
C8_ItemPagesByIntegerSuffix ==
  \A p \in Procs :
    (Refreshed(p) /\ pc[p] = "store_ts" /\ undisturbed[p])
    => LET pages == Visited(since_ts[p])
           seen == {pages[i] : i \in 1..Len(pages)}
           kept == IF since_ts[p] = None THEN {} ELSE DOMAIN cache_pre[p]
       IN  /\ DOMAIN cache = kept \cup ItemUids(pages)
           /\ P042 \in seen => 42 \in DOMAIN cache
           /\ P007 \in seen => 7 \in DOMAIN cache
           /\ \A u \in DOMAIN cache : u >= 0

\* The refresh visited the readme page before an item page and stored the item.
C8_Witness ==
  \E p \in Procs :
    /\ Refreshed(p) /\ pc[p] = "store_ts" /\ undisturbed[p]
    /\ LET pages == Visited(since_ts[p])
       IN  \E i, j \in 1..Len(pages) :
             i < j /\ pages[i] = PReadme /\ pages[j] = P042
    /\ 42 \in DOMAIN cache
    /\ 42 \notin DOMAIN cache_pre[p]

\* C9: read_item for a uid whose page does not exist does not answer with an
\* Item and leaves no empty record under that uid.
C9_MissingItemNotFound ==
  \A p \in Procs :
    (/\ req[p].op = "read_item" /\ pc[p] = "done"
     /\ undisturbed[p]
     /\ ~PageExists(ItemPage(req[p].item_id)))
    => /\ resp[p].kind # "item"
       /\ Entry(cache, req[p].item_id) # {EmptyDict}

\* C10: list_items, when no wiki call raises, ends with one Item per cache
\* entry and never with an error, the empty cache included.
C10_ListNeverFails ==
  \A p \in Procs :
    (/\ req[p].op = "list_items" /\ pc[p] = "done"
     /\ ~(resp[p].kind = "error" /\ resp[p].body = "DokuWikiError"))
    => /\ resp[p].kind = "items"
       /\ Alone(p) => DOMAIN resp[p].body = DOMAIN cache

\* The lookup returned a user record.
UserFound == call.fn = "read_user_data" /\ ret.kind = "user"

\* The groups of the one matching entry, as the directory names them.
Membership == call.search.entries[1].groupMembership

Answered ==
  /\ call.fn = "read_user_data"
  /\ ret # NoRet
  /\ call.search.kind = "results"
  /\ \A i \in 1..Len(call.search.entries) :
       "groupMembership" \in DOMAIN call.search.entries[i]

\* C12: the lookup handles every match count: no matching entry gives the
\* absent result and no error, one entry gives the user record, several
\* entries give an error.
C12_EveryMatchCount ==
  Answered =>
    LET n == Len(call.search.entries)
    IN  /\ n = 0 => ret = NoneRet
        /\ n = 1 => ret.kind = "user"
        /\ n > 1 => ret.kind = "error"

\* C13: the lookup fails closed: when the search times out or raises another
\* directory error the result is the absent result and nothing is raised.
C13_FailsClosed ==
  (/\ call.fn = "read_user_data"
   /\ ret # NoRet
   /\ call.search.kind # "results")
  => ret = NoneRet

\* The mapper went from a raw record to an Item and back to a raw record.
RoundTrip == call.fn = "mapper" /\ ret.kind = "raw"

\* C14: round trip: for a raw record with every mapped field populated,
\* _item_to_dw(_dw_to_item(raw)) has every mapped raw name other than ID,
\* with the value it had in raw.
C14_RoundTrip ==
  (RoundTrip /\ call.raw \in PopulatedRaw)
  => \A k \in DOMAIN DW_TO_I \ {"ID"} :
       k \in DOMAIN ret.body /\ ret.body[k] = call.raw[k]

\* C15: _item_to_dw never emits the uid field, the reverse map has no entry
\* for uid, and the keys of the output are exactly the raw names of the
\* other mapped fields that have a value.
C15_NoUidNoEmptyFields ==
  RoundTrip =>
    /\ "uid" \notin DOMAIN I_TO_DW
    /\ "ID" \notin DOMAIN ret.body
    /\ DOMAIN ret.body =
         {k \in DOMAIN DW_TO_I \ {"ID"} : ret.item[DW_TO_I[k]].t # "none"}

\* The raw record without the keys DW_TO_I does not know.
KnownOnly(raw) == [k \in DOMAIN raw \cap DOMAIN DW_TO_I |-> raw[k]]

\* C16: whenever _dw_to_item returns an Item, every mapped field whose raw
\* value is the empty string has no value (typ too), a non-empty scalar typ
\* is a one-element list, a list typ is that list in the same order; and
\* the outcome is that of the record without its unknown keys.
C16_EmptyTypUnknown ==
  (call.fn = "mapper" /\ ret.kind \in {"item", "error"})
  => /\ ret = ItemResp(KnownOnly(call.raw), "dw_to_item")
     /\ ret.kind = "item" =>
          /\ \A k \in DOMAIN call.raw \cap DOMAIN DW_TO_I :
               (call.raw[k].t = "str" /\ call.raw[k].v = <<>>)
               => ret.body[DW_TO_I[k]].t = "none"
          /\ "Typ_devicetypes" \in DOMAIN call.raw =>
               LET typ == call.raw["Typ_devicetypes"]
               IN  /\ (typ.t = "str" /\ typ.v # <<>>) => ret.body["typ"] = ListVal(<<typ.v>>)
                   /\ typ.t = "list" => ret.body["typ"] = typ

\* An Item came out of a record with an empty ID and name, a scalar typ and
\* an unknown key.
C16_Witness ==
  /\ call.fn = "mapper" /\ ret.kind = "item"
  /\ DOMAIN call.raw = {"ID", "Name", "Typ_devicetypes", "Kommentar"}
  /\ call.raw["ID"] = StrVal(<<>>) /\ call.raw["Name"] = StrVal(<<>>)
  /\ call.raw["Typ_devicetypes"] = StrVal(StrPC)
  /\ ret.body["typ"] = ListVal(<<StrPC>>)
  /\ ret.body["name"] = NoValue

\* What read_item has done so far for thread p: it fetches only when purge
\* is set or the uid was not cached, and then the page of that uid only; it
\* answers from the cache with the cached record and the cache as it was;
\* after a fetch the cache differs from before in that uid's entry only,
\* which is the fetched record.
ReadItemFrame(p) ==
  LET id == req[p].item_id
      from_cache == ~req[p].purge_cache /\ id \in DOMAIN cache_pre[p]
  IN  /\ pc[p] \in {"gd_info", "gd_get"} => ~from_cache /\ uid[p] = id
      /\ pc[p] \in {"gd_info", "gd_get", "ri_read", "ri_put"} => cache = cache_pre[p]
      /\ (pc[p] = "done" /\ from_cache) =>
           /\ cache = cache_pre[p]
           /\ resp[p] = ItemResp(cache_pre[p][id], "ri_read")
      /\ (pc[p] = "done" /\ ~from_cache /\ resp[p].kind = "error"
          /\ resp[p].body = "DokuWikiError") => cache = cache_pre[p]
      /\ (pc[p] = "done" /\ ~from_cache
          /\ ~(resp[p].kind = "error" /\ resp[p].body = "DokuWikiError")) =>
           /\ DOMAIN cache = DOMAIN cache_pre[p] \cup {id}
           /\ \A u \in DOMAIN cache_pre[p] \ {id} : cache[u] = cache_pre[p][u]
           /\ cache[id] = dataentry[p]
           /\ undisturbed[p] => cache[id] = Fetched(id)
           /\ resp[p] = ItemResp(cache[id], "ri_put")

\* C17: read_item without purge for a cached uid answers with the mapping of
\* the cached record, fetches nothing and leaves the cache as it was; with
\* purge or for an uncached uid it fetches that uid's page only, replaces
\* that uid's entry by the fetched record and changes no other entry; no
\* step of read_item changes the watermark.
C17_ReadItemFrame ==
  [][\A p \in Procs :
       req'[p].op = "read_item"
       => /\ last_checked_ts' = last_checked_ts
          /\ ReadItemFrame(p)']_vars

\* read_item with purge has refetched a cached uid beside another entry,
\* after a refresh had set the watermark.
C17_Witness ==
  \E p \in Procs :
    /\ req[p].op = "read_item" /\ pc[p] = "done"
    /\ req[p].purge_cache
    /\ resp[p].kind = "item"
    /\ req[p].item_id \in DOMAIN cache_pre[p]
    /\ DOMAIN cache # {req[p].item_id}
    /\ last_checked_ts # None

\* C18: an incremental refresh, run to its end with no page edited
\* meanwhile, touches the uids of the changed item pages under
\* lab:ausstattung: and nothing else: no entry is removed, every other entry
\* is as before, every touched entry is the freshly fetched record, and a
\* changed page of another namespace adds and changes nothing.
C18_IncrementalFrame ==
  \A p \in Procs :
    (/\ Refreshed(p) /\ pc[p] = "store_ts"
     /\ since_ts[p] # None
     /\ undisturbed[p])
    => LET changed == pages_changes(since_ts[p])
           touched == {ParseInt(changed[i].leaf) :
                         i \in {j \in 1..Len(changed) :
                                  /\ Len(changed[j].ns) >= 2
                                  /\ changed[j].ns[1] = "lab"
                                  /\ changed[j].ns[2] = "ausstattung"
                                  /\ IsIntLiteral(changed[j].leaf)}}
       IN  /\ DOMAIN cache = DOMAIN cache_pre[p] \cup touched
           /\ \A u \in DOMAIN cache :
                cache[u] = IF u \in touched THEN Fetched(u) ELSE cache_pre[p][u]

\* An incremental refresh replaced or added an entry and kept another, while
\* the changes feed also named the page of the other namespace.
C18_Witness ==
  \E p \in Procs :
    /\ Refreshed(p) /\ pc[p] = "store_ts"
    /\ since_ts[p] # None
    /\ undisturbed[p]
    /\ \E i \in 1..Len(pages_changes(since_ts[p])) : pages_changes(since_ts[p])[i] = POther
    /\ cache # cache_pre[p]
    /\ \E u \in DOMAIN cache_pre[p] : cache[u] = cache_pre[p][u]

\* C19: the page get_dataentry reads for a uid is the listed page that gave
\* the uid, for every listed page id whose last segment is a number.
C19_SamePageAddressed ==
  (call.fn = "get_dataentry" /\ ret.kind = "page") => ret.page = call.page

\* C20: the timestamp update_cache asks the changes feed for is its argument
\* since_ts, whatever other requests have stored meanwhile.
C20_ChangesSinceArgument ==
  \A p \in Procs : pc[p] = "uc_changes" => ChangesSince(p) = since_ts[p]

====
